---- MODULE Spec2Model ----
(***************************************************************************)
(* Admission control of snuba: the per-request settings object             *)
(* (snuba/request/request_settings.py), the object-id rate limiter        *)
(* processors (snuba/query/processors/object_id_rate_limiter.py) and the  *)
(* subscription executor command (snuba/cli/subscriptions_executor.py).   *)
(*                                                                         *)
(* Spec      one request: a query, its RequestSettings, the config store,  *)
(*           and the rate limiter processors running over them.            *)
(* SettingsSpec  the settings object of a request under all its callers.   *)
(* QuotaSpec   the resource quota of a request under its callers.          *)
(* OutageSpec  one request while the configuration store comes and goes.   *)
(* ExecSpec  one run of the subscriptions executor: scheduled tasks, the   *)
(*           worker pool, the termination signals and the shutdown path.   *)
(* ExecFairSpec  the same run with workers and consumer scheduled fairly.  *)
(***************************************************************************)
EXTENDS Integers, Sequences, FiniteSets, TLC

VARIABLES
    query,            \* the request's query: column -> referenced ids, in set order
    settings,         \* the request's RequestSettings object
    store,            \* snuba.state configuration: key -> stored value
    last_processor,   \* class of the processor whose process_query ran last, or "none"
    repeated,         \* the last step ran last_processor a second time in a row
    external_adds,    \* add_rate_limit was called by something else than a processor
    lookups,          \* was the store available at the two lookups of the last run
    raised,           \* the exception the last process_query raised to its caller, or None
    observed,         \* what the last get_rate_limit_params() of a caller returned
    quota_calls       \* the arguments of the set_resource_quota calls so far

rl_vars ==
    <<query, settings, store, last_processor, repeated, external_adds,
      lookups, raised, observed, quota_calls>>

VARIABLES
    stale_threshold_seconds,  \* the --stale-threshold-seconds option, or None
    tasks,                    \* scheduled task -> [status, age when considered]
    processor_state,          \* "Running", "ShuttingDown" or "Stopped"
    main_pc,                  \* where the command is in its with block
    signals,                  \* termination signals delivered so far
    querylog_flushes,         \* calls of state.flush_producer()
    producer_closes,          \* calls of producer.close().result()
    published_after_close,    \* a result was produced after close() had begun
    backpressured,            \* tasks that had to wait for a free worker
    close_failed,             \* producer.close().result() has raised
    exception,                \* the exception on its way out of the with block, or None
    exit_code,                \* the exit status of the command, None while it runs
    in_flight                 \* the executor's count of executions in flight

exec_vars ==
    <<stale_threshold_seconds, tasks, processor_state, main_pc, signals,
      querylog_flushes, producer_closes, published_after_close,
      backpressured, close_failed, exception, exit_code, in_flight>>

VARIABLES
    consumer_state,   \* the state the stateful consumer is in, None once it has ended
    consumer_path     \* the transitions it has taken: <<state left, completion event>>

consumer_vars == <<consumer_state, consumer_path>>

vars == <<rl_vars, exec_vars, consumer_vars>>

(***************************************************************************)
(* Optional[int]: None is the empty tuple, a value v is <<v>>.             *)
(***************************************************************************)
None == <<>>

Some(v) == <<v>>

(***************************************************************************)
(* Bounds and input domains of the model.                                  *)
(***************************************************************************)
\* callers other than the processors add limits while the list is shorter
MaxParams == 2

ObjectIds == {7, 42}

\* set_resource_quota calls on one settings object
MaxQuotaCalls == 2

\* scheduled tasks of one run of the executor
NumTasks == 3

\* the --max-concurrent-queries option
max_concurrent_queries == 2

\* termination signals delivered to one run
MaxSignals == 2

\* seconds between a task's scheduled timestamp and the time it is considered
Ages == {5, 10, 15}

StaleThresholds == {None, Some(10)}

Referrers == {"api", "tagstore"}

ORG_COLUMN == "org_id"

PROJECT_COLUMN == "project_id"

Columns == {ORG_COLUMN, PROJECT_COLUMN}

(***************************************************************************)
(* snuba.state.rate_limit: the names of the limits and the value object.   *)
(***************************************************************************)
ORGANIZATION_RATE_LIMIT_NAME == "organization"

PROJECT_RATE_LIMIT_NAME == "project"

PROJECT_REFERRER_RATE_LIMIT_NAME == "project_referrer"

REFERRER_RATE_LIMIT_NAME == "referrer"

RateLimitParameters(rate_limit_name, bucket, per_second_limit, concurrent_limit) ==
    [rate_limit_name |-> rate_limit_name,
     bucket |-> bucket,
     per_second_limit |-> per_second_limit,
     concurrent_limit |-> concurrent_limit]

DEFAULT_LIMIT == 1000

(***************************************************************************)
(* snuba/request/request_settings.py                                       *)
(***************************************************************************)
HTTPRequestSettings(referrer) ==
    [class |-> "HTTPRequestSettings",
     referrer |-> referrer,
     turbo |-> FALSE,
     consistent |-> FALSE,
     debug |-> FALSE,
     parent_api |-> "<unknown>",
     dry_run |-> FALSE,
     legacy |-> FALSE,
     team |-> "<unknown>",
     feature |-> "<unknown>",
     app_id |-> "default",
     rate_limit_params |-> <<>>,
     resource_quota |-> None]

\* The subscription class keeps no list and no quota of its own: the two
\* fields stay at their empty values, only the getters below read them.
SubscriptionRequestSettings(referrer) ==
    [class |-> "SubscriptionRequestSettings",
     referrer |-> referrer,
     turbo |-> FALSE,
     consistent |-> TRUE,
     debug |-> FALSE,
     parent_api |-> "subscription",
     dry_run |-> FALSE,
     legacy |-> FALSE,
     team |-> "workflow",
     feature |-> "subscription",
     app_id |-> "default",
     rate_limit_params |-> <<>>,
     resource_quota |-> None]

HTTP_get_rate_limit_params(s) == s.rate_limit_params

\* an add_rate_limit that inserts at the front
HTTP_add_rate_limit_Prepend(s, rate_limit_param) ==
    [s EXCEPT !.rate_limit_params = <<rate_limit_param>> \o @]

\* an add_rate_limit that keeps the newest entry only
HTTP_add_rate_limit_Replaces(s, rate_limit_param) ==
    [s EXCEPT !.rate_limit_params = <<rate_limit_param>>]

HTTP_add_rate_limit(s, rate_limit_param) ==
    [s EXCEPT !.rate_limit_params = Append(@, rate_limit_param)]

\* a getter that hands out a global default limit
Subscription_get_rate_limit_params_Global(s) ==
    <<RateLimitParameters("global", "global", None, Some(DEFAULT_LIMIT))>>

Subscription_get_rate_limit_params(s) == <<>>

Subscription_add_rate_limit(s, rate_limit_param) == s

\* snuba.state.quota.ResourceQuota
ResourceQuota(max_threads) == [max_threads |-> max_threads]

HTTP_get_resource_quota(s) == s.resource_quota

\* a setter that keeps a quota that is already set
HTTP_set_resource_quota_KeepsFirst(s, quota) ==
    IF s.resource_quota = None THEN [s EXCEPT !.resource_quota = Some(quota)] ELSE s

HTTP_set_resource_quota(s, quota) == [s EXCEPT !.resource_quota = Some(quota)]

\* a getter that hands out a quota of one thread
Subscription_get_resource_quota_Default(s) == Some(ResourceQuota(1))

Subscription_get_resource_quota(s) == None

Subscription_set_resource_quota(s, quota) == s

HTTP_get_turbo(s) == s.turbo

HTTP_get_debug(s) == s.debug

HTTP_get_dry_run(s) == s.dry_run

HTTP_get_legacy(s) == s.legacy

Subscription_get_turbo(s) == FALSE

Subscription_get_debug(s) == FALSE

Subscription_get_dry_run(s) == FALSE

Subscription_get_legacy(s) == FALSE

get_turbo(s) ==
    IF s.class = "HTTPRequestSettings" THEN HTTP_get_turbo(s) ELSE Subscription_get_turbo(s)

get_debug(s) ==
    IF s.class = "HTTPRequestSettings" THEN HTTP_get_debug(s) ELSE Subscription_get_debug(s)

get_dry_run(s) ==
    IF s.class = "HTTPRequestSettings" THEN HTTP_get_dry_run(s) ELSE Subscription_get_dry_run(s)

get_legacy(s) ==
    IF s.class = "HTTPRequestSettings" THEN HTTP_get_legacy(s) ELSE Subscription_get_legacy(s)

get_resource_quota(s) ==
    IF s.class = "HTTPRequestSettings"
    THEN HTTP_get_resource_quota(s)
    ELSE Subscription_get_resource_quota(s)

set_resource_quota(s, quota) ==
    IF s.class = "HTTPRequestSettings"
    THEN HTTP_set_resource_quota(s, quota)
    ELSE Subscription_set_resource_quota(s, quota)

get_rate_limit_params(s) ==
    IF s.class = "HTTPRequestSettings"
    THEN HTTP_get_rate_limit_params(s)
    ELSE Subscription_get_rate_limit_params(s)

add_rate_limit(s, rate_limit_param) ==
    IF s.class = "HTTPRequestSettings"
    THEN HTTP_add_rate_limit(s, rate_limit_param)
    ELSE Subscription_add_rate_limit(s, rate_limit_param)

(***************************************************************************)
(* snuba.state.get_configs and the query accessor, as the processors use   *)
(* them.                                                                   *)
(***************************************************************************)
\* each (key, default) resolves to the stored value, or to the default
get_configs(st, key_defaults) ==
    [i \in DOMAIN key_defaults |->
        IF key_defaults[i][1] \in DOMAIN st
        THEN Some(st[key_defaults[i][1]])
        ELSE key_defaults[i][2]]

\* what a lookup reads: the stored configuration, or nothing at all while
\* the store is unavailable, so that every key resolves to its default
get_all_configs(st, available) == IF available THEN st ELSE [key \in {} |-> 0]

\* a query whose conditions have no shape the accessor recognizes
MalformedQuery == [column \in {} |-> <<>>]

\* the ids the query's conditions reference on the column, in the order
\* the set holds them; nothing when no condition on the column is recognized
get_object_ids_in_query_ast(q, object_column) ==
    IF object_column \in DOMAIN q THEN q[object_column] ELSE <<>>

\* an exception on its way to the caller
Raise(exc) == <<"raise", exc>>

IsRaise(v) == Len(v) = 2

\* set.pop(): an arbitrary element, the one the set gives up first; which
\* one that is depends on how the query built the set, so a query fixes it
pop(obj_ids) == Head(obj_ids)

str(obj_id) == ToString(obj_id)

\* f"{a}_{b}"
Underscore(a, b) == a \o "_" \o b

(***************************************************************************)
(* snuba/query/processors/object_id_rate_limiter.py                        *)
(***************************************************************************)
ObjectIDRateLimiterProcessor(class, object_column, rate_limit_name, per_second_name, concurrent_name, request_settings_field, default_limit) ==
    [class |-> class,
     object_column |-> object_column,
     rate_limit_name |-> rate_limit_name,
     per_second_name |-> per_second_name,
     concurrent_name |-> concurrent_name,
     request_settings_field |-> request_settings_field,
     default_limit |-> default_limit]

OrganizationRateLimiterProcessor ==
    ObjectIDRateLimiterProcessor(
        "OrganizationRateLimiterProcessor", ORG_COLUMN, ORGANIZATION_RATE_LIMIT_NAME,
        "org_per_second_limit", "org_concurrent_limit", None, Some(DEFAULT_LIMIT))

ProjectReferrerRateLimiter ==
    ObjectIDRateLimiterProcessor(
        "ProjectReferrerRateLimiter", PROJECT_COLUMN, PROJECT_REFERRER_RATE_LIMIT_NAME,
        "project_referrer_per_second_limit", "project_referrer_concurrent_limit",
        Some("referrer"), None)

ReferrerRateLimiterProcessor ==
    ObjectIDRateLimiterProcessor(
        "ReferrerRateLimiterProcessor", "nocolumn", REFERRER_RATE_LIMIT_NAME,
        "referrer_per_second_limit", "referrer_concurrent_limit",
        Some("referrer"), None)

\* the project processor built without a default limit
ProjectRateLimiterProcessor_Unlimited ==
    ObjectIDRateLimiterProcessor(
        "ProjectRateLimiterProcessor", PROJECT_COLUMN, PROJECT_RATE_LIMIT_NAME,
        "project_per_second_limit", "project_concurrent_limit", None, None)

ProjectRateLimiterProcessor ==
    ObjectIDRateLimiterProcessor(
        "ProjectRateLimiterProcessor", PROJECT_COLUMN, PROJECT_RATE_LIMIT_NAME,
        "project_per_second_limit", "project_concurrent_limit", None, Some(DEFAULT_LIMIT))

Processors ==
    {OrganizationRateLimiterProcessor, ProjectRateLimiterProcessor,
     ProjectReferrerRateLimiter, ReferrerRateLimiterProcessor}

\* a guard that never finds the limit
_is_already_applied_Never(self, request_settings) == FALSE

\* the loop returns on its first entry, whatever its name
_is_already_applied_FirstOnly(self, request_settings) ==
    /\ get_rate_limit_params(request_settings) # <<>>
    /\ get_rate_limit_params(request_settings)[1].rate_limit_name = self.rate_limit_name

\* an _is_already_applied that looks at the newest entry only
_is_already_applied_LastOnly(self, request_settings) ==
    LET existing == get_rate_limit_params(request_settings)
    IN  existing # <<>> /\ existing[Len(existing)].rate_limit_name = self.rate_limit_name

\* an _is_already_applied satisfied by an entry of any name
_is_already_applied_AnyEntry(self, request_settings) ==
    get_rate_limit_params(request_settings) # <<>>

_is_already_applied(self, request_settings) ==
    \E i \in DOMAIN get_rate_limit_params(request_settings) :
        get_rate_limit_params(request_settings)[i].rate_limit_name = self.rate_limit_name

\* getattr(request_settings, field, None): the only field the processors name
getattr(request_settings, field) ==
    IF field = "referrer" THEN Some(request_settings.referrer) ELSE None

\* a get_object_id that deals with several ids by joining them
Base_get_object_id_JoinsIds(self, q, request_settings) ==
    LET obj_ids == get_object_ids_in_query_ast(q, self.object_column)
    IN  IF obj_ids = <<>> THEN None
        ELSE IF Len(obj_ids) = 1 THEN Some(str(obj_ids[1]))
        ELSE Some(Underscore(str(obj_ids[1]), str(obj_ids[2])))

\* get_object_id without the "if not obj_ids" return: set.pop() on an empty
\* set raises KeyError
Base_get_object_id_Unguarded(self, q, request_settings) ==
    LET obj_ids == get_object_ids_in_query_ast(q, self.object_column)
    IN  IF obj_ids = <<>> THEN Raise("KeyError")
        ELSE LET obj_id == str(pop(obj_ids))
                 val == IF self.request_settings_field = None THEN None
                        ELSE getattr(request_settings, self.request_settings_field[1])
             IN  IF val # None THEN Some(Underscore(obj_id, val[1])) ELSE Some(obj_id)

Base_get_object_id(self, q, request_settings) ==
    LET obj_ids == get_object_ids_in_query_ast(q, self.object_column)
    IN  IF obj_ids = <<>> THEN None
        ELSE LET obj_id == str(pop(obj_ids))
                 val == IF self.request_settings_field = None THEN None
                        ELSE getattr(request_settings, self.request_settings_field[1])
             IN  IF val # None THEN Some(Underscore(obj_id, val[1])) ELSE Some(obj_id)

\* the class without its own get_object_id: the referrer is appended
ProjectReferrer_get_object_id_Inherited(self, q, request_settings) ==
    Base_get_object_id(self, q, request_settings)

\* a get_object_id that makes a bucket of the missing id: str(None)
ProjectReferrer_get_object_id_StrNone(self, q, request_settings) ==
    LET obj_ids == get_object_ids_in_query_ast(q, self.object_column)
    IN  IF obj_ids = <<>> THEN Some("None") ELSE Some(str(pop(obj_ids)))

ProjectReferrer_get_object_id(self, q, request_settings) ==
    LET obj_ids == get_object_ids_in_query_ast(q, self.object_column)
    IN  IF obj_ids = <<>> THEN None ELSE Some(str(pop(obj_ids)))

\* the class without its own get_object_id, looking for projects in the query
Referrer_get_object_id_FromQuery(self, q, request_settings) ==
    Base_get_object_id([self EXCEPT !.object_column = PROJECT_COLUMN], q, request_settings)

Referrer_get_object_id(self, q, request_settings) == Some(request_settings.referrer)

get_object_id(self, q, request_settings) ==
    CASE self.class = "ProjectReferrerRateLimiter" ->
            ProjectReferrer_get_object_id(self, q, request_settings)
      [] self.class = "ReferrerRateLimiterProcessor" ->
            Referrer_get_object_id(self, q, request_settings)
      [] OTHER -> Base_get_object_id(self, q, request_settings)

get_per_second_name(self, q, request_settings) ==
    IF self.class = "ProjectReferrerRateLimiter"
    THEN Underscore(self.per_second_name, request_settings.referrer)
    ELSE self.per_second_name

get_concurrent_name(self, q, request_settings) ==
    IF self.class = "ProjectReferrerRateLimiter"
    THEN Underscore(self.concurrent_name, request_settings.referrer)
    ELSE self.concurrent_name

\* process_query with the static default, not the category's stored limits,
\* as the fallback of the per-object lookup
process_query_StaticFallback(self, q, request_settings, st) ==
    IF _is_already_applied(self, request_settings) THEN request_settings
    ELSE
    LET per_second_name == get_per_second_name(self, q, request_settings)
        concurrent_name == get_concurrent_name(self, q, request_settings)
        obj_id == get_object_id(self, q, request_settings)
    IN  IF obj_id = None THEN request_settings
        ELSE
        LET limits == get_configs(st,
                        <<<<Underscore(per_second_name, obj_id[1]), self.default_limit>>,
                          <<Underscore(concurrent_name, obj_id[1]), self.default_limit>>>>)
        IN  IF self.default_limit = None /\ limits[1] = None /\ limits[2] = None
            THEN request_settings
            ELSE add_rate_limit(request_settings,
                    RateLimitParameters(self.rate_limit_name, obj_id[1], limits[1], limits[2]))

\* process_query with None, not default_limit, as the default of the
\* category's lookup
process_query_with_NoDefault(self, q, request_settings, st, available) ==
    IF _is_already_applied(self, request_settings) THEN request_settings
    ELSE
    LET per_second_name == get_per_second_name(self, q, request_settings)
        concurrent_name == get_concurrent_name(self, q, request_settings)
        object_limits == get_configs(get_all_configs(st, available[1]),
                            <<<<per_second_name, None>>, <<concurrent_name, None>>>>)
        obj_id == get_object_id(self, q, request_settings)
    IN  IF obj_id = None \/ IsRaise(obj_id) THEN request_settings
        ELSE
        LET limits == get_configs(get_all_configs(st, available[2]),
                        <<<<Underscore(per_second_name, obj_id[1]), object_limits[1]>>,
                          <<Underscore(concurrent_name, obj_id[1]), object_limits[2]>>>>)
        IN  IF self.default_limit = None /\ limits[1] = None /\ limits[2] = None
            THEN request_settings
            ELSE add_rate_limit(request_settings,
                    RateLimitParameters(self.rate_limit_name, obj_id[1], limits[1], limits[2]))

\* the settings object after process_query(query, request_settings), the
\* store being available or not at the category's and at the object's lookup;
\* an exception leaves the settings as they were
process_query_with(self, q, request_settings, st, available) ==
    IF _is_already_applied(self, request_settings) THEN request_settings
    ELSE
    LET per_second_name == get_per_second_name(self, q, request_settings)
        concurrent_name == get_concurrent_name(self, q, request_settings)
        object_limits == get_configs(get_all_configs(st, available[1]),
                            <<<<per_second_name, self.default_limit>>,
                              <<concurrent_name, self.default_limit>>>>)
        object_rate_limit == object_limits[1]
        object_concurrent_limit == object_limits[2]
        obj_id == get_object_id(self, q, request_settings)
    IN  IF obj_id = None \/ IsRaise(obj_id) THEN request_settings
        ELSE
        LET limits == get_configs(get_all_configs(st, available[2]),
                        <<<<Underscore(per_second_name, obj_id[1]), object_rate_limit>>,
                          <<Underscore(concurrent_name, obj_id[1]), object_concurrent_limit>>>>)
            per_second == limits[1]
            concurr == limits[2]
        IN  IF self.default_limit = None /\ per_second = None /\ concurr = None
            THEN request_settings
            ELSE add_rate_limit(request_settings,
                    RateLimitParameters(self.rate_limit_name, obj_id[1], per_second, concurr))

\* process_query skipping as soon as one of the two limits is unset
process_query_SkipsOnEither(self, q, request_settings, st) ==
    IF _is_already_applied(self, request_settings) THEN request_settings
    ELSE
    LET per_second_name == get_per_second_name(self, q, request_settings)
        concurrent_name == get_concurrent_name(self, q, request_settings)
        object_limits == get_configs(st, <<<<per_second_name, self.default_limit>>,
                                           <<concurrent_name, self.default_limit>>>>)
        obj_id == get_object_id(self, q, request_settings)
    IN  IF obj_id = None \/ IsRaise(obj_id) THEN request_settings
        ELSE
        LET limits == get_configs(st,
                        <<<<Underscore(per_second_name, obj_id[1]), object_limits[1]>>,
                          <<Underscore(concurrent_name, obj_id[1]), object_limits[2]>>>>)
        IN  IF self.default_limit = None /\ (limits[1] = None \/ limits[2] = None)
            THEN request_settings
            ELSE add_rate_limit(request_settings,
                    RateLimitParameters(self.rate_limit_name, obj_id[1], limits[1], limits[2]))

\* a process_query that attaches to settings built anew from the referrer,
\* carrying over the entries only
process_query_FreshSettings(self, q, request_settings, st) ==
    LET out == process_query_with(self, q, request_settings, st, <<TRUE, TRUE>>)
    IN  IF out = request_settings THEN request_settings
        ELSE [HTTPRequestSettings(request_settings.referrer)
                EXCEPT !.rate_limit_params = out.rate_limit_params]

\* process_query while the store answers every lookup
process_query(self, q, request_settings, st) ==
    process_query_with(self, q, request_settings, st, <<TRUE, TRUE>>)

\* the exception process_query lets through to its caller, None when it returns
process_query_raises(self, q, request_settings) ==
    IF _is_already_applied(self, request_settings) THEN None
    ELSE IF IsRaise(get_object_id(self, q, request_settings))
         THEN get_object_id(self, q, request_settings)
         ELSE None

(***************************************************************************)
(* One request.  The query and its settings are made at ingress, the       *)
(* processors then run over them in any order, any number of times.        *)
(***************************************************************************)
\* the ids a column's conditions reference: no id twice, any set order
IdOrders == {ids \in UNION {[1..n -> ObjectIds] : n \in 0..Cardinality(ObjectIds)} :
                \A i, j \in DOMAIN ids : i # j => ids[i] # ids[j]}

Queries == [Columns -> IdOrders]

SettingsAtIngress ==
    {HTTPRequestSettings(r) : r \in Referrers}
        \cup {SubscriptionRequestSettings(r) : r \in Referrers}

\* the values an operator stores: a limit for a whole category, and a
\* tighter one for a single object
StoredLimit ==
    [global_per_second |-> 10, global_concurrent |-> 5,
     object_per_second |-> 2, object_concurrent |-> 1]

\* the objects a processor can be asked about
Objects(self) ==
    IF self.class = "ReferrerRateLimiterProcessor" THEN Referrers
    ELSE {str(id) : id \in ObjectIds}

\* the keys the category's limits are stored under for this request's
\* referrer, with the value an operator would store under each
GlobalKeys(self, q, request_settings) ==
    {<<get_per_second_name(self, q, request_settings), StoredLimit.global_per_second>>,
     <<get_concurrent_name(self, q, request_settings), StoredLimit.global_concurrent>>}

\* the same for the override of one object
ObjectKeys(self, q, request_settings, o) ==
    {<<Underscore(get_per_second_name(self, q, request_settings), o),
       StoredLimit.object_per_second>>,
     <<Underscore(get_concurrent_name(self, q, request_settings), o),
       StoredLimit.object_concurrent>>}

\* the configuration holding exactly these (key, value) pairs
StoreOf(pairs) ==
    [k \in {kv[1] : kv \in pairs} |-> (CHOOSE kv \in pairs : kv[1] = k)[2]]

\* the operator has configured nothing, or any part of one category's
\* limits and of the override of one of its objects
Stores(q, request_settings) ==
    {StoreOf(g \cup o) :
        <<g, o>> \in UNION {(SUBSET GlobalKeys(p, q, request_settings))
                              \X UNION {SUBSET ObjectKeys(p, q, request_settings, ob) :
                                           ob \in Objects(p)} :
                            p \in Processors}}

(***************************************************************************)
(* snuba/cli/subscriptions_executor.py: one run of the command.  The       *)
(* stream processor built by build_executor_consumer takes the scheduled   *)
(* tasks in order, sheds the stale ones, runs the others on the thread     *)
(* pool and produces their results.                                        *)
(***************************************************************************)
TaskIds == 1..NumTasks

Task(status, age) == [status |-> status, age |-> age]

\* a pool with one worker too many
executor_max_workers_OneMore == max_concurrent_queries + 1

\* ThreadPoolExecutor(max_concurrent_queries)
executor_max_workers == max_concurrent_queries

\* the option is not handed to the consumer
consumer_stale_threshold_seconds_Unset == None

\* the stale_threshold_seconds argument of build_executor_consumer
consumer_stale_threshold_seconds == stale_threshold_seconds

\* a worker that stays busy after its query has raised
Executing_KeepsFailed == {t \in TaskIds : tasks[t].status \in {"running", "failed"}}

Executing == {t \in TaskIds : tasks[t].status = "running"}

\* a worker of the pool is free
HasFreeSlot == Cardinality(Executing) < executor_max_workers

\* the scheduled timestamp is older than now - threshold
IsStale(age) ==
    /\ consumer_stale_threshold_seconds # None
    /\ age > consumer_stale_threshold_seconds[1]

\* the first task not yet taken from the scheduled topic
NextTask == CHOOSE t \in TaskIds :
                /\ tasks[t].status = "scheduled"
                /\ \A u \in TaskIds : tasks[u].status = "scheduled" => t <= u

ExecInit ==
    /\ stale_threshold_seconds \in StaleThresholds
    /\ tasks = [t \in TaskIds |-> Task("scheduled", None)]
    /\ processor_state = "Running"
    /\ main_pc = "run"
    /\ signals = 0
    /\ querylog_flushes = 0
    /\ producer_closes = 0
    /\ published_after_close = FALSE
    /\ backpressured = {}
    /\ close_failed = FALSE
    /\ exception = None
    /\ exit_code = None
    /\ in_flight = 0

\* the executor of a request that is not a subscription run: nothing scheduled
ExecIdle ==
    /\ stale_threshold_seconds = None
    /\ tasks = [t \in TaskIds |-> Task("scheduled", None)]
    /\ processor_state = "Running"
    /\ main_pc = "run"
    /\ signals = 0
    /\ querylog_flushes = 0
    /\ producer_closes = 0
    /\ published_after_close = FALSE
    /\ backpressured = {}
    /\ close_failed = FALSE
    /\ exception = None
    /\ exit_code = None
    /\ in_flight = 0

\* the processor takes the next scheduled task, age seconds after its
\* scheduled timestamp: a stale task is discarded, any other starts on a worker
Consider(age) ==
    /\ main_pc = "run"
    /\ processor_state = "Running"
    /\ \E t \in TaskIds : tasks[t].status = "scheduled"
    /\ HasFreeSlot
    /\ tasks' = [tasks EXCEPT ![NextTask] =
                    Task(IF IsStale(age) THEN "discarded" ELSE "running", Some(age))]
    /\ in_flight' = IF IsStale(age) THEN in_flight ELSE in_flight + 1
    /\ UNCHANGED <<stale_threshold_seconds, processor_state, main_pc, signals,
                   querylog_flushes, producer_closes, published_after_close,
                   backpressured, close_failed, exception, exit_code, rl_vars, consumer_vars>>

\* a submission that drops the task when no worker is free
SubmitBlocks_Drops ==
    /\ main_pc = "run"
    /\ processor_state = "Running"
    /\ \E t \in TaskIds : tasks[t].status = "scheduled"
    /\ ~HasFreeSlot
    /\ NextTask \notin backpressured
    /\ backpressured' = backpressured \cup {NextTask}
    /\ tasks' = [tasks EXCEPT ![NextTask].status = "failed"]
    /\ UNCHANGED <<stale_threshold_seconds, in_flight, processor_state, main_pc, signals,
                   querylog_flushes, producer_closes, published_after_close,
                   close_failed, exception, exit_code, rl_vars, consumer_vars>>

\* the next task is submitted while every worker is busy: it waits
SubmitBlocks ==
    /\ main_pc = "run"
    /\ processor_state = "Running"
    /\ \E t \in TaskIds : tasks[t].status = "scheduled"
    /\ ~HasFreeSlot
    /\ NextTask \notin backpressured
    /\ backpressured' = backpressured \cup {NextTask}
    /\ UNCHANGED <<stale_threshold_seconds, in_flight, tasks, processor_state, main_pc, signals,
                   querylog_flushes, producer_closes, published_after_close,
                   close_failed, exception, exit_code, rl_vars, consumer_vars>>

\* the query of a running task returns its result
Complete(t) ==
    /\ tasks[t].status = "running"
    /\ tasks' = [tasks EXCEPT ![t].status = "succeeded"]
    /\ in_flight' = in_flight - 1
    /\ UNCHANGED <<stale_threshold_seconds, processor_state, main_pc, signals,
                   querylog_flushes, producer_closes, published_after_close,
                   backpressured, close_failed, exception, exit_code, rl_vars, consumer_vars>>

\* a failure that leaves the count of executions in flight as it was
Fail_KeepsCount(t) ==
    /\ tasks[t].status = "running"
    /\ tasks' = [tasks EXCEPT ![t].status = "failed"]
    /\ UNCHANGED <<stale_threshold_seconds, in_flight, processor_state, main_pc, signals,
                   querylog_flushes, producer_closes, published_after_close,
                   backpressured, close_failed, exception, exit_code, rl_vars, consumer_vars>>

\* the query of a running task raises
Fail(t) ==
    /\ tasks[t].status = "running"
    /\ tasks' = [tasks EXCEPT ![t].status = "failed"]
    /\ in_flight' = in_flight - 1
    /\ UNCHANGED <<stale_threshold_seconds, processor_state, main_pc, signals,
                   querylog_flushes, producer_closes, published_after_close,
                   backpressured, close_failed, exception, exit_code, rl_vars, consumer_vars>>

\* the processor produces the result of a finished task
Publish(t) ==
    /\ main_pc = "run"
    /\ tasks[t].status = "succeeded"
    /\ tasks' = [tasks EXCEPT ![t].status = "published"]
    /\ published_after_close' = (published_after_close \/ producer_closes > 0)
    /\ UNCHANGED <<stale_threshold_seconds, in_flight, processor_state, main_pc, signals,
                   querylog_flushes, producer_closes,
                   backpressured, close_failed, exception, exit_code, rl_vars, consumer_vars>>

\* a signal_shutdown that does not look at the state it finds
signal_shutdown_Unconditional(state) == "ShuttingDown"

signal_shutdown(state) == IF state = "Running" THEN "ShuttingDown" ELSE state

\* a handler that only flushes the querylog producer
handler_NoShutdown(signum) ==
    /\ querylog_flushes' = querylog_flushes + 1
    /\ UNCHANGED <<processor_state, producer_closes>>

\* a handler that also closes the result producer
handler_ClosesProducer(signum) ==
    /\ processor_state' = signal_shutdown(processor_state)
    /\ querylog_flushes' = querylog_flushes + 1
    /\ producer_closes' = producer_closes + 1

\* handler(signum, frame)
handler(signum) ==
    /\ processor_state' = signal_shutdown(processor_state)
    /\ querylog_flushes' = querylog_flushes + 1
    /\ UNCHANGED producer_closes

Signums == {"SIGINT", "SIGTERM"}

\* only SIGINT is given the handler, SIGTERM keeps its default disposition
signal_handlers_InterruptOnly ==
    [signum \in Signums |-> IF signum = "SIGINT" THEN "handler" ELSE "SIG_DFL"]

\* signal.signal(signal.SIGINT, handler); signal.signal(signal.SIGTERM, handler)
signal_handlers == [signum \in Signums |-> "handler"]

\* SIGINT or SIGTERM is delivered to the process: its handler runs; a
\* signal left with the default disposition ends the process at once
Signal(signum) ==
    /\ main_pc # "exited"
    /\ signals < MaxSignals
    /\ signals' = signals + 1
    /\ IF signal_handlers[signum] = "handler"
       THEN /\ handler(signum)
            /\ UNCHANGED <<main_pc, exit_code>>
       ELSE /\ main_pc' = "exited"
            /\ exit_code' = Some(1)
            /\ UNCHANGED <<processor_state, querylog_flushes, producer_closes>>
    /\ UNCHANGED <<stale_threshold_seconds, in_flight, tasks, published_after_close,
                   backpressured, close_failed, exception, rl_vars, consumer_vars>>

\* processor.run() returns: shutdown was requested and the work in flight
\* has finished and its results are produced
RunReturns ==
    /\ main_pc = "run"
    /\ processor_state = "ShuttingDown"
    /\ \A t \in TaskIds : tasks[t].status \notin {"running", "succeeded"}
    /\ processor_state' = "Stopped"
    /\ main_pc' = "closing"
    /\ UNCHANGED <<stale_threshold_seconds, in_flight, tasks, signals, querylog_flushes,
                   producer_closes, published_after_close,
                   backpressured, close_failed, exception, exit_code, rl_vars, consumer_vars>>

\* a closing() that closes the producer before the body of the with block
\* has run to its end
closing_BeforeBody ==
    /\ main_pc \in {"run", "closing"}
    /\ producer_closes = 0
    /\ producer_closes' = producer_closes + 1
    /\ main_pc' = IF main_pc = "closing" THEN "executor_exit" ELSE main_pc
    /\ UNCHANGED <<stale_threshold_seconds, in_flight, tasks, processor_state, signals,
                   querylog_flushes, published_after_close,
                   backpressured, close_failed, exception, exit_code, rl_vars, consumer_vars>>

\* a closing() that catches what close().result() raises
closing_Swallows ==
    /\ main_pc = "closing"
    /\ producer_closes' = producer_closes + 1
    /\ \E ok \in BOOLEAN : close_failed' = ~ok
    /\ exception' = exception
    /\ main_pc' = "executor_exit"
    /\ UNCHANGED <<stale_threshold_seconds, in_flight, tasks, processor_state, signals,
                   querylog_flushes, published_after_close, backpressured,
                   exit_code, rl_vars, consumer_vars>>

\* a closing() that leaves the with statement without closing the producer
closing_SkipsClose ==
    /\ main_pc = "closing"
    /\ main_pc' = "executor_exit"
    /\ UNCHANGED <<stale_threshold_seconds, in_flight, tasks, processor_state, signals,
                   querylog_flushes, producer_closes, published_after_close,
                   backpressured, close_failed, exception, exit_code, rl_vars, consumer_vars>>

\* closing(producer): producer.close().result() once the body has ended;
\* what it raises leaves the finally block and the with statement
closing ==
    /\ main_pc = "closing"
    /\ producer_closes' = producer_closes + 1
    /\ \E ok \in BOOLEAN :
          /\ close_failed' = ~ok
          /\ exception' = IF ok THEN exception ELSE Some("KafkaException")
    /\ main_pc' = "executor_exit"
    /\ UNCHANGED <<stale_threshold_seconds, in_flight, tasks, processor_state, signals,
                   querylog_flushes, published_after_close, backpressured,
                   exit_code, rl_vars, consumer_vars>>

\* with executor: shutdown(wait=True) returns when no worker is busy and
\* __exit__ suppresses nothing: the command ends with the exception, if any
executor_exit ==
    /\ main_pc = "executor_exit"
    /\ Executing = {}
    /\ main_pc' = "exited"
    /\ exit_code' = IF exception # None THEN Some(1) ELSE Some(0)
    /\ UNCHANGED <<stale_threshold_seconds, in_flight, tasks, processor_state, signals,
                   querylog_flushes, producer_closes, published_after_close,
                   backpressured, close_failed, exception, rl_vars, consumer_vars>>

ExecNext ==
    \/ \E age \in Ages : Consider(age)
    \/ SubmitBlocks
    \/ \E t \in TaskIds : Complete(t)
    \/ \E t \in TaskIds : Fail(t)
    \/ \E t \in TaskIds : Publish(t)
    \/ \E signum \in Signums : Signal(signum)
    \/ RunReturns
    \/ closing
    \/ executor_exit

(***************************************************************************)
(* snuba/stateful_consumer/consumer_context.py: the definition table the   *)
(* ConsumerContext hands to its StateContext, and the walk of a consumer   *)
(* along it from the start state.                                          *)
(***************************************************************************)
MaxTransitions == 20

StateTypes == {"BOOTSTRAP", "CONSUMING", "SNAPSHOT_PAUSED", "CATCHING_UP"}

StateCompletionEvents ==
    {"NO_SNAPSHOT", "SNAPSHOT_INIT_RECEIVED", "SNAPSHOT_READY_RECEIVED",
     "CONSUMPTION_COMPLETED", "SNAPSHOT_CATCHUP_COMPLETED"}

\* a table in which the bootstrap may end the consumer as well
definition_BootstrapCompletes ==
    [BOOTSTRAP |->
        [NO_SNAPSHOT |-> Some("CONSUMING"),
         SNAPSHOT_INIT_RECEIVED |-> Some("SNAPSHOT_PAUSED"),
         SNAPSHOT_READY_RECEIVED |-> Some("CATCHING_UP"),
         CONSUMPTION_COMPLETED |-> None],
     CONSUMING |->
        [CONSUMPTION_COMPLETED |-> None,
         SNAPSHOT_INIT_RECEIVED |-> Some("SNAPSHOT_PAUSED")],
     SNAPSHOT_PAUSED |->
        [CONSUMPTION_COMPLETED |-> None,
         SNAPSHOT_READY_RECEIVED |-> Some("CATCHING_UP")],
     CATCHING_UP |->
        [CONSUMPTION_COMPLETED |-> None,
         SNAPSHOT_CATCHUP_COMPLETED |-> Some("CONSUMING")]]

\* definition={...}: state -> completion event -> next state, None to end
definition ==
    [BOOTSTRAP |->
        [NO_SNAPSHOT |-> Some("CONSUMING"),
         SNAPSHOT_INIT_RECEIVED |-> Some("SNAPSHOT_PAUSED"),
         SNAPSHOT_READY_RECEIVED |-> Some("CATCHING_UP")],
     CONSUMING |->
        [CONSUMPTION_COMPLETED |-> None,
         SNAPSHOT_INIT_RECEIVED |-> Some("SNAPSHOT_PAUSED")],
     SNAPSHOT_PAUSED |->
        [CONSUMPTION_COMPLETED |-> None,
         SNAPSHOT_READY_RECEIVED |-> Some("CATCHING_UP")],
     CATCHING_UP |->
        [CONSUMPTION_COMPLETED |-> None,
         SNAPSHOT_CATCHUP_COMPLETED |-> Some("CONSUMING")]]

start_state == "BOOTSTRAP"

\* a consumer that has not left its start state
ConsumerIdle ==
    /\ consumer_state = Some(start_state)
    /\ consumer_path = <<>>

\* the current state completes with the event and the table names what
\* comes next
Transition(event) ==
    /\ consumer_state # None
    /\ Len(consumer_path) < MaxTransitions
    /\ event \in DOMAIN definition[consumer_state[1]]
    /\ consumer_state' = definition[consumer_state[1]][event]
    /\ consumer_path' = Append(consumer_path, <<consumer_state[1], event>>)
    /\ UNCHANGED <<rl_vars, exec_vars>>

ConsumerNext == \E event \in StateCompletionEvents : Transition(event)

RLInit ==
    /\ query \in Queries
    /\ settings \in SettingsAtIngress
    /\ store \in Stores(query, settings)
    /\ last_processor = "none"
    /\ repeated = FALSE
    /\ external_adds = FALSE
    /\ lookups = <<TRUE, TRUE>>
    /\ raised = None
    /\ observed = <<>>
    /\ quota_calls = <<>>

ProcessQuery(self) ==
    /\ settings' = process_query(self, query, settings, store)
    /\ raised' = process_query_raises(self, query, settings)
    /\ lookups' = <<TRUE, TRUE>>
    /\ repeated' = (last_processor = self.class)
    /\ last_processor' = self.class
    /\ UNCHANGED <<query, store, external_adds, observed, quota_calls, exec_vars, consumer_vars>>

\* process_query while the store may be unavailable at either lookup
ProcessQueryDuring(self, available) ==
    /\ settings' = process_query_with(self, query, settings, store, available)
    /\ raised' = process_query_raises(self, query, settings)
    /\ lookups' = available
    /\ repeated' = (last_processor = self.class)
    /\ last_processor' = self.class
    /\ UNCHANGED <<query, store, external_adds, observed, quota_calls, exec_vars, consumer_vars>>

\* a caller other than the processors adds a limit of its own
ExternalLimits == {RateLimitParameters(n, "external", None, None) :
                      n \in {p.rate_limit_name : p \in Processors}}

AddRateLimit(rate_limit_param) ==
    /\ Len(settings.rate_limit_params) < MaxParams
    /\ settings' = add_rate_limit(settings, rate_limit_param)
    /\ external_adds' = TRUE
    /\ last_processor' = "none"
    /\ repeated' = FALSE
    /\ UNCHANGED <<query, store, lookups, raised, observed, quota_calls, exec_vars, consumer_vars>>

\* a caller reads the limits of the request
GetRateLimitParams ==
    /\ observed' = get_rate_limit_params(settings)
    /\ UNCHANGED <<query, settings, store, last_processor, repeated, external_adds,
                   lookups, raised, quota_calls, exec_vars, consumer_vars>>

ResourceQuotas == {ResourceQuota(4), ResourceQuota(8)}

\* a caller sets the quota of the request
SetResourceQuota(quota) ==
    /\ Len(quota_calls) < MaxQuotaCalls
    /\ settings' = set_resource_quota(settings, quota)
    /\ quota_calls' = Append(quota_calls, quota)
    /\ UNCHANGED <<query, store, last_processor, repeated, external_adds,
                   lookups, raised, observed, exec_vars, consumer_vars>>

Init == RLInit /\ ExecIdle /\ ConsumerIdle

Next ==
    \/ \E p \in Processors : ProcessQuery(p)

Spec == Init /\ [][Next]_vars

(***************************************************************************)
(* The settings object under all its callers: the processors, and code     *)
(* that calls add_rate_limit itself.                                       *)
(***************************************************************************)
\* requests whose query names the same single id, or none, on every column;
\* the operator has configured nothing
SettingsInit ==
    /\ query \in {q \in Queries : \A c \in Columns : Len(q[c]) <= 1 /\ q[c] = q[ORG_COLUMN]}
    /\ settings \in SettingsAtIngress
    /\ store = StoreOf({})
    /\ last_processor = "none"
    /\ repeated = FALSE
    /\ external_adds = FALSE
    /\ lookups = <<TRUE, TRUE>>
    /\ raised = None
    /\ observed = <<>>
    /\ quota_calls = <<>>
    /\ ExecIdle
    /\ ConsumerIdle

SettingsNext ==
    \/ \E p \in Processors : ProcessQuery(p)
    \/ \E l \in ExternalLimits : AddRateLimit(l)
    \/ GetRateLimitParams

SettingsSpec == SettingsInit /\ [][SettingsNext]_vars

(***************************************************************************)
(* The quota of a request: callers set it while the processors run.        *)
(***************************************************************************)
QuotaNext ==
    \/ \E p \in Processors : ProcessQuery(p)
    \/ \E quota \in ResourceQuotas : SetResourceQuota(quota)

QuotaSpec == SettingsInit /\ [][QuotaNext]_vars

(***************************************************************************)
(* Requests made with parameters of the caller's choice, under every       *)
(* caller of the settings: the processors, add_rate_limit and              *)
(* set_resource_quota.                                                     *)
(***************************************************************************)
\* settings made with every parameter given by the caller
CustomSettings ==
    {[HTTPRequestSettings("api") EXCEPT
         !.turbo = TRUE, !.consistent = TRUE, !.debug = TRUE, !.dry_run = TRUE,
         !.legacy = TRUE, !.parent_api = "api", !.team = "sns",
         !.feature = "discover", !.app_id = "custom"],
     [SubscriptionRequestSettings("api") EXCEPT
         !.consistent = FALSE, !.parent_api = "api", !.team = "sns",
         !.feature = "discover", !.app_id = "custom"]}

CallersInit ==
    /\ query \in {q \in Queries : \A c \in Columns : Len(q[c]) <= 1 /\ q[c] = q[ORG_COLUMN]}
    /\ settings \in SettingsAtIngress \cup CustomSettings
    /\ store = StoreOf({})
    /\ last_processor = "none"
    /\ repeated = FALSE
    /\ external_adds = FALSE
    /\ lookups = <<TRUE, TRUE>>
    /\ raised = None
    /\ observed = <<>>
    /\ quota_calls = <<>>
    /\ ExecIdle
    /\ ConsumerIdle

CallersNext ==
    \/ \E p \in Processors : ProcessQuery(p)
    \/ \E l \in ExternalLimits : AddRateLimit(l)
    \/ \E quota \in ResourceQuotas : SetResourceQuota(quota)

CallersSpec == CallersInit /\ [][CallersNext]_vars

(***************************************************************************)
(* One request while the configuration store comes and goes: each of the   *)
(* two lookups of a process_query run finds it available or not.           *)
(***************************************************************************)
\* queries naming the same single id, or none, on every column, and the
\* malformed one
OutageQueries ==
    {q \in Queries : \A c \in Columns : Len(q[c]) <= 1 /\ q[c] = q[ORG_COLUMN]}
        \cup {MalformedQuery}

OutageInit ==
    /\ query \in OutageQueries
    /\ settings \in {HTTPRequestSettings("api"), SubscriptionRequestSettings("api")}
    /\ store \in Stores(query, settings)
    /\ last_processor = "none"
    /\ repeated = FALSE
    /\ external_adds = FALSE
    /\ lookups = <<TRUE, TRUE>>
    /\ raised = None
    /\ observed = <<>>
    /\ quota_calls = <<>>
    /\ ExecIdle
    /\ ConsumerIdle

OutageNext ==
    \E p \in Processors : \E available \in BOOLEAN \X BOOLEAN : ProcessQueryDuring(p, available)

OutageSpec == OutageInit /\ [][OutageNext]_vars

\* the run of the executor serves no HTTP request: a settings object of a
\* subscription, a query without conditions, nothing configured
RLIdle ==
    /\ query = [c \in Columns |-> <<>>]
    /\ settings = SubscriptionRequestSettings("subscriptions_executor")
    /\ store = StoreOf({})
    /\ last_processor = "none"
    /\ repeated = FALSE
    /\ external_adds = FALSE
    /\ lookups = <<TRUE, TRUE>>
    /\ raised = None
    /\ observed = <<>>
    /\ quota_calls = <<>>

ExecSpecInit == RLIdle /\ ExecInit /\ ConsumerIdle

ExecSpec == ExecSpecInit /\ [][ExecNext]_vars

\* the pool runs what it has started to its end, the processor takes the
\* next task and produces a result whenever it may, and the main thread
\* goes on through the exits of its with block
ExecFairness ==
    /\ WF_vars(\E age \in Ages : Consider(age))
    /\ \A t \in TaskIds : WF_vars(Complete(t) \/ Fail(t))
    /\ WF_vars(\E t \in TaskIds : Publish(t))
    /\ WF_vars(RunReturns)
    /\ WF_vars(closing)
    /\ WF_vars(executor_exit)

\* a run with the staleness threshold configured
ExecFairInit == ExecSpecInit /\ stale_threshold_seconds = Some(10)

ExecFairSpec == ExecFairInit /\ [][ExecNext]_vars /\ ExecFairness

(***************************************************************************)
(* One request while the operator edits the configuration and the query    *)
(* is rewritten between the runs of the processors.                        *)
(***************************************************************************)
\* queries naming the same single id, or none, on every column, and one
\* naming both ids on both
DriftQueries ==
    {q \in Queries : \A c \in Columns : Len(q[c]) <= 1 /\ q[c] = q[ORG_COLUMN]}
        \cup {[column \in Columns |-> IF column = ORG_COLUMN THEN <<7, 42>> ELSE <<42, 7>>]}

\* nothing configured, or every category's limits with the overrides of
\* one object of each
DriftStores ==
    {StoreOf({}),
     StoreOf(UNION {GlobalKeys(p, MalformedQuery, HTTPRequestSettings("api"))
                      \cup ObjectKeys(p, MalformedQuery, HTTPRequestSettings("api"),
                                      IF p.class = "ReferrerRateLimiterProcessor"
                                      THEN "api" ELSE str(42)) :
                    p \in Processors})}

DriftInit ==
    /\ query \in DriftQueries
    /\ settings = HTTPRequestSettings("api")
    /\ store \in DriftStores
    /\ last_processor = "none"
    /\ repeated = FALSE
    /\ external_adds = FALSE
    /\ lookups = <<TRUE, TRUE>>
    /\ raised = None
    /\ observed = <<>>
    /\ quota_calls = <<>>
    /\ ExecIdle
    /\ ConsumerIdle

\* the operator replaces the configuration
StoreChanges(st) ==
    /\ st # store
    /\ store' = st
    /\ last_processor' = "none"
    /\ repeated' = FALSE
    /\ UNCHANGED <<query, settings, external_adds, lookups, raised, observed,
                   quota_calls, exec_vars, consumer_vars>>

\* the query is rewritten and names other objects
QueryChanges(q) ==
    /\ q # query
    /\ query' = q
    /\ last_processor' = "none"
    /\ repeated' = FALSE
    /\ UNCHANGED <<settings, store, external_adds, lookups, raised, observed,
                   quota_calls, exec_vars, consumer_vars>>

DriftNext ==
    \/ \E p \in Processors : ProcessQuery(p)
    \/ \E st \in DriftStores : StoreChanges(st)
    \/ \E q \in DriftQueries : QueryChanges(q)

DriftSpec == DriftInit /\ [][DriftNext]_vars

(***************************************************************************)
(* One stateful consumer from its start state on, nothing else running.    *)
(***************************************************************************)
ConsumerInit == RLIdle /\ ExecIdle /\ ConsumerIdle

ConsumerSpec == ConsumerInit /\ [][ConsumerNext]_vars

(***************************************************************************)
(* Properties of the settings object and of the rate limiter processors.   *)
(***************************************************************************)
\* the entries of the settings that carry the name, in order
EntriesNamed(s, name) ==
    SelectSeq(get_rate_limit_params(s), LAMBDA e : e.rate_limit_name = name)

IsHTTP(s) == s.class = "HTTPRequestSettings"

\* the processors that take the object id from the query
ObjectProcessors ==
    {OrganizationRateLimiterProcessor, ProjectRateLimiterProcessor, ProjectReferrerRateLimiter}

ProcessorNamed(name) == CHOOSE p \in Processors : p.rate_limit_name = name

\* what is stored under the key, or the default
Stored(key, default) == IF key \in DOMAIN store THEN Some(store[key]) ELSE default

\* C1: subscription settings never hold a rate limit: whatever add_rate_limit
\* calls and process_query runs came before, get_rate_limit_params() is empty.
C1_SubscriptionNeverAccumulates ==
    ~IsHTTP(settings) => get_rate_limit_params(settings) = <<>>

\* C1 witness: subscription settings after an add_rate_limit call and a run
\* of the organization processor on a query that names an organization.
C1_Witness ==
    /\ ~IsHTTP(settings)
    /\ external_adds
    /\ last_processor = OrganizationRateLimiterProcessor.class
    /\ query[ORG_COLUMN] # <<>>

\* C2: a processor run a second time in a row on the same settings leaves
\* get_rate_limit_params() as the first run left it.
C2_SecondRunChangesNothing ==
    [][\A p \in Processors :
          (last_processor = p.class /\ ProcessQuery(p))
              => get_rate_limit_params(settings') = get_rate_limit_params(settings)]_vars

\* C2 witness: a processor has just run a second time in a row and the
\* settings hold its one entry.
C2_Witness ==
    /\ repeated
    /\ \E p \in Processors :
          /\ last_processor = p.class
          /\ Len(EntriesNamed(settings, p.rate_limit_name)) = 1

\* C3 as stated: a processor that takes its id from the query, run on
\* settings without a limit of its name and a query naming exactly one id on
\* its column, leaves exactly one entry of its name, with the id as bucket.
C3_OneIdYieldsOneEntry ==
    [][\A p \in ObjectProcessors :
          (/\ Len(query[p.object_column]) = 1
           /\ EntriesNamed(settings, p.rate_limit_name) = <<>>
           /\ ProcessQuery(p))
              => /\ Len(EntriesNamed(settings', p.rate_limit_name)) = 1
                 /\ EntriesNamed(settings', p.rate_limit_name)[1].bucket
                        = str(query[p.object_column][1])]_vars

\* some limit of the category or of the object is stored for the request
AnyLimitStored(p, o) ==
    \E kv \in GlobalKeys(p, query, settings) \cup ObjectKeys(p, query, settings, o) :
        kv[1] \in DOMAIN store

\* C3 amended: the same run on HTTP settings leaves exactly one entry of the
\* name with the id as bucket when the processor has a default limit or some
\* limit is stored for the category or the object; otherwise, and on
\* subscription settings, it leaves the limits as they were.
C3_OneIdYieldsOneEntryUnlessSkipped ==
    [][\A p \in ObjectProcessors :
          (/\ Len(query[p.object_column]) = 1
           /\ EntriesNamed(settings, p.rate_limit_name) = <<>>
           /\ ProcessQuery(p))
              => IF /\ IsHTTP(settings)
                    /\ \/ p.default_limit # None
                       \/ AnyLimitStored(p, str(query[p.object_column][1]))
                 THEN /\ Len(EntriesNamed(settings', p.rate_limit_name)) = 1
                      /\ EntriesNamed(settings', p.rate_limit_name)[1].bucket
                            = str(query[p.object_column][1])
                      /\ Len(get_rate_limit_params(settings'))
                            = Len(get_rate_limit_params(settings)) + 1
                 ELSE get_rate_limit_params(settings')
                            = get_rate_limit_params(settings)]_vars

\* C3 witness: the project-referrer processor ran once on a query naming one
\* project and attached its entry, with the project id as bucket.
C3_Witness ==
    /\ last_processor = ProjectReferrerRateLimiter.class
    /\ ~repeated
    /\ Len(query[PROJECT_COLUMN]) = 1
    /\ Len(EntriesNamed(settings, PROJECT_REFERRER_RATE_LIMIT_NAME)) = 1
    /\ EntriesNamed(settings, PROJECT_REFERRER_RATE_LIMIT_NAME)[1].bucket
          = str(query[PROJECT_COLUMN][1])

\* C4: each limit of an attached entry is the value stored for the object
\* under "{name}_{bucket}" when there is one, else the value stored for the
\* category under "{name}", else the processor's default limit.
C4_TwoTierResolution ==
    \A i \in DOMAIN get_rate_limit_params(settings) :
        LET e == get_rate_limit_params(settings)[i]
            p == ProcessorNamed(e.rate_limit_name)
            per_second_name == get_per_second_name(p, query, settings)
            concurrent_name == get_concurrent_name(p, query, settings)
        IN  /\ e.per_second_limit
                 = Stored(Underscore(per_second_name, e.bucket),
                          Stored(per_second_name, p.default_limit))
            /\ e.concurrent_limit
                 = Stored(Underscore(concurrent_name, e.bucket),
                          Stored(concurrent_name, p.default_limit))

\* C4 witness: with (10, 5) stored for organizations and (2, 1) for
\* organization 42, the entry for 42 carries (2, 1).
C4_Witness ==
    /\ DOMAIN store = {"org_per_second_limit", "org_concurrent_limit",
                       "org_per_second_limit_42", "org_concurrent_limit_42"}
    /\ store["org_per_second_limit"] = 10 /\ store["org_concurrent_limit"] = 5
    /\ store["org_per_second_limit_42"] = 2 /\ store["org_concurrent_limit_42"] = 1
    /\ EntriesNamed(settings, ORGANIZATION_RATE_LIMIT_NAME)
          = <<RateLimitParameters(ORGANIZATION_RATE_LIMIT_NAME, "42", Some(2), Some(1))>>

\* C10: HTTP settings that only the processors have added to hold at most
\* one entry per rate_limit_name.
C10_OneEntryPerName ==
    (IsHTTP(settings) /\ ~external_adds)
        => \A i, j \in DOMAIN get_rate_limit_params(settings) :
              get_rate_limit_params(settings)[i].rate_limit_name
                    = get_rate_limit_params(settings)[j].rate_limit_name
                 => i = j

\* C10 witness: three processors have attached, one of them has run again.
C10_Witness ==
    /\ IsHTTP(settings)
    /\ ~external_adds
    /\ repeated
    /\ Len(get_rate_limit_params(settings)) = 3

(***************************************************************************)
(* Properties of the subscription executor.                                *)
(***************************************************************************)
Considered == {t \in TaskIds : tasks[t].status # "scheduled"}

\* C5: at most max_concurrent_queries queries execute at the same time.
C5_AtMostMaxConcurrent == Cardinality(Executing) <= max_concurrent_queries

\* C5 witness: max_concurrent_queries queries execute and a further task
\* is still waiting to be taken.
C5_Witness ==
    /\ Cardinality(Executing) = max_concurrent_queries
    /\ \E t \in TaskIds : tasks[t].status = "scheduled"

\* C6: once the close of the result producer has begun, no admitted task is
\* still executing and no result is produced any more.
C6_CloseAfterAdmittedWork ==
    producer_closes > 0
        => /\ signals > 0
           /\ Executing = {}
           /\ ~published_after_close

\* C6 witness: the producer is closed after a signal that found a query
\* executing; that task has finished and its result is produced.
C6_Witness ==
    /\ producer_closes > 0
    /\ \E t \in TaskIds : tasks[t].status = "published"
    /\ \E t \in TaskIds : tasks[t].status = "failed"

\* C7: no task is admitted once a handler has called signal_shutdown.
C7_NoAdmissionAfterSignal ==
    [][signals > 0 => \A t \in TaskIds :
          tasks'[t].status = "running" => tasks[t].status = "running"]_vars

\* C7 witness: a signal has been delivered while a task was still scheduled
\* and another was executing; the run has gone on to its end.
C7_Witness ==
    /\ signals > 0
    /\ main_pc = "exited"
    /\ \E t \in TaskIds : tasks[t].status = "scheduled"
    /\ \E t \in TaskIds : tasks[t].status \in {"published", "failed"}

\* C8: the result producer is closed at most once, and exactly once by the
\* time the command has exited, however many signals were delivered.
C8_ProducerClosedOnce ==
    /\ producer_closes <= 1
    /\ main_pc \in {"executor_exit", "exited"} => producer_closes = 1

\* C8 witness: the command has exited after more than one signal.
C8_Witness ==
    /\ main_pc = "exited"
    /\ signals > 1
    /\ producer_closes = 1

\* C9: with a threshold S configured, a task considered more than S seconds
\* after its scheduled timestamp is discarded and is never executed or
\* published, any other task is executed; without a threshold no task is
\* discarded.
C9_StaleTasksAreShed ==
    \A t \in Considered :
        IF stale_threshold_seconds # None
              /\ tasks[t].age[1] > stale_threshold_seconds[1]
        THEN tasks[t].status = "discarded"
        ELSE tasks[t].status \in {"running", "succeeded", "published", "failed"}

\* C9 witness: with S = 10, a task considered after 15 seconds is discarded
\* and one considered after 5 seconds has its result produced.
C9_Witness ==
    /\ stale_threshold_seconds = Some(10)
    /\ \E t \in TaskIds : tasks[t] = Task("discarded", Some(15))
    /\ \E t \in TaskIds : tasks[t] = Task("published", Some(5))

(***************************************************************************)
(* Further properties of the rate limiter processors.                      *)
(***************************************************************************)
\* C11: the referrer processor resolves, for every query, the settings'
\* referrer as the object id, and the bucket of the entry it attaches is the
\* settings' referrer, whatever ids the query names on its columns.
C11_ReferrerIsTheObjectId ==
    /\ \A q \in Queries :
          get_object_id(ReferrerRateLimiterProcessor, q, settings) = Some(settings.referrer)
    /\ \A i \in DOMAIN get_rate_limit_params(settings) :
          get_rate_limit_params(settings)[i].rate_limit_name = REFERRER_RATE_LIMIT_NAME
              => get_rate_limit_params(settings)[i].bucket = settings.referrer

\* C11 witness: the referrer processor has attached its entry for a query
\* that names an organization and a project.
C11_Witness ==
    /\ Len(EntriesNamed(settings, REFERRER_RATE_LIMIT_NAME)) = 1
    /\ EntriesNamed(settings, REFERRER_RATE_LIMIT_NAME)[1].bucket = settings.referrer
    /\ query[ORG_COLUMN] # <<>>
    /\ query[PROJECT_COLUMN] # <<>>

\* what a lookup resolves the key to: the stored value when the store is
\* available and holds one, else the default the lookup was given
Resolved(available, key, default) ==
    IF available /\ key \in DOMAIN store THEN Some(store[key]) ELSE default

\* the processor will look up limits: no entry of its name yet, and an object id
LooksUp(p) ==
    /\ EntriesNamed(settings, p.rate_limit_name) = <<>>
    /\ get_object_id(p, query, settings) # None

\* C12 as stated: when the store is unavailable at a lookup of process_query,
\* no exception reaches the caller and the resolved limits are the
\* processor's default_limit: the entry attached carries default_limit twice,
\* and a processor whose default_limit is None attaches nothing.
C12_OutageResolvesToStaticDefault ==
    [][\A p \in Processors : \A available \in (BOOLEAN \X BOOLEAN) \ {<<TRUE, TRUE>>} :
          (/\ last_processor' = p.class
           /\ lookups' = available
           /\ IsHTTP(settings)
           /\ LooksUp(p)
           /\ ProcessQueryDuring(p, available))
              => /\ raised' = None
                 /\ get_rate_limit_params(settings')
                       = IF p.default_limit = None
                         THEN get_rate_limit_params(settings)
                         ELSE Append(get_rate_limit_params(settings),
                                     RateLimitParameters(p.rate_limit_name,
                                         get_object_id(p, query, settings)[1],
                                         p.default_limit, p.default_limit))]_vars

\* C12 amended: when the store is unavailable at a lookup of process_query,
\* no exception reaches the caller and the lookup resolves to the defaults it
\* was given: default_limit for the category's lookup, the category's
\* resolved limits for the object's lookup.  With the store unavailable at
\* both lookups the resolved limits are default_limit.
C12_OutageResolvesToSuppliedDefaults ==
    [][\A p \in Processors : \A available \in (BOOLEAN \X BOOLEAN) \ {<<TRUE, TRUE>>} :
          (/\ last_processor' = p.class
           /\ lookups' = available
           /\ IsHTTP(settings)
           /\ LooksUp(p)
           /\ ProcessQueryDuring(p, available))
              => LET obj_id == get_object_id(p, query, settings)[1]
                     per_second_name == get_per_second_name(p, query, settings)
                     concurrent_name == get_concurrent_name(p, query, settings)
                     per_second ==
                         Resolved(available[2], Underscore(per_second_name, obj_id),
                             Resolved(available[1], per_second_name, p.default_limit))
                     concurr ==
                         Resolved(available[2], Underscore(concurrent_name, obj_id),
                             Resolved(available[1], concurrent_name, p.default_limit))
                 IN  /\ raised' = None
                     /\ available = <<FALSE, FALSE>>
                           => per_second = p.default_limit /\ concurr = p.default_limit
                     /\ get_rate_limit_params(settings')
                           = IF p.default_limit = None /\ per_second = None /\ concurr = None
                             THEN get_rate_limit_params(settings)
                             ELSE Append(get_rate_limit_params(settings),
                                         RateLimitParameters(p.rate_limit_name, obj_id,
                                                             per_second, concurr))]_vars

\* C12 witness: limits are stored for organizations and for organization
\* 42, the store was unavailable at both lookups of the organization
\* processor, and the entry it attached carries the default limit.
C12_Witness ==
    /\ last_processor = OrganizationRateLimiterProcessor.class
    /\ lookups = <<FALSE, FALSE>>
    /\ raised = None
    /\ "org_per_second_limit" \in DOMAIN store
    /\ "org_concurrent_limit_42" \in DOMAIN store
    /\ EntriesNamed(settings, ORGANIZATION_RATE_LIMIT_NAME)
          = <<RateLimitParameters(ORGANIZATION_RATE_LIMIT_NAME, "42",
                                  Some(DEFAULT_LIMIT), Some(DEFAULT_LIMIT))>>

\* C13: when the accessor finds no object id, the query being malformed or
\* naming none on the column, process_query raises nothing to its caller and
\* leaves the limits of the settings as they were.
C13_NoObjectIdNoLimiter ==
    [][\A p \in ObjectProcessors : \A available \in BOOLEAN \X BOOLEAN :
          (/\ last_processor' = p.class
           /\ lookups' = available
           /\ get_object_ids_in_query_ast(query, p.object_column) = <<>>
           /\ ProcessQueryDuring(p, available))
              => /\ raised' = None
                 /\ get_rate_limit_params(settings') = get_rate_limit_params(settings)]_vars

\* C13 witness: the organization processor has run on the malformed query
\* of an HTTP request and has returned; the settings hold no limit of its name.
C13_Witness ==
    /\ query = MalformedQuery
    /\ IsHTTP(settings)
    /\ last_processor = OrganizationRateLimiterProcessor.class
    /\ raised = None
    /\ EntriesNamed(settings, ORGANIZATION_RATE_LIMIT_NAME) = <<>>

(***************************************************************************)
(* Further properties of the settings object.                              *)
(***************************************************************************)
\* C18: on HTTP settings add_rate_limit(p) appends p, so that
\* get_rate_limit_params() afterwards is the sequence before the call followed
\* by p; get_rate_limit_params() returns the sequence and changes nothing.
C18_AddAppendsGetReads ==
    [][IsHTTP(settings) =>
          /\ \A l \in ExternalLimits :
                AddRateLimit(l)
                    => get_rate_limit_params(settings')
                          = Append(get_rate_limit_params(settings), l)
          /\ GetRateLimitParams
                => /\ observed' = get_rate_limit_params(settings)
                   /\ settings' = settings
                   /\ get_rate_limit_params(settings') = get_rate_limit_params(settings)]_vars

\* C18 witness: a caller has added a limit to HTTP settings that already
\* held a processor's entry, and a reader has got the two in that order.
C18_Witness ==
    /\ IsHTTP(settings)
    /\ external_adds
    /\ Len(get_rate_limit_params(settings)) = 2
    /\ get_rate_limit_params(settings)[1].bucket # "external"
    /\ get_rate_limit_params(settings)[2].bucket = "external"
    /\ observed = get_rate_limit_params(settings)

\* C19: HTTP settings hold no quota until set_resource_quota is called, and
\* then get_resource_quota() returns the argument of the most recent call.
C19_QuotaIsLastSet ==
    IsHTTP(settings)
        => get_resource_quota(settings)
              = IF quota_calls = <<>> THEN None ELSE Some(quota_calls[Len(quota_calls)])

\* C19 witness: the quota of an HTTP request was set twice, to different
\* values, and is the second.
C19_Witness ==
    /\ IsHTTP(settings)
    /\ quota_calls = <<ResourceQuota(4), ResourceQuota(8)>>
    /\ get_resource_quota(settings) = Some(ResourceQuota(8))

(***************************************************************************)
(* Further properties of the subscription executor.                        *)
(***************************************************************************)
\* C14: when the query of a task raises, the executor goes on as it was and
\* every other task is left alone; one execution fewer is in flight, so that
\* a worker is free for a waiting task.
C14_FailureReleasesSlot ==
    [][\A t \in TaskIds :
          (tasks[t].status = "running" /\ tasks'[t].status = "failed")
              => /\ processor_state' = processor_state
                 /\ main_pc' = main_pc
                 /\ exception' = exception
                 /\ \A u \in TaskIds \ {t} : tasks'[u] = tasks[u]
                 /\ Cardinality(Executing') = Cardinality(Executing) - 1
                 /\ HasFreeSlot']_vars

\* C14 witness: a query has raised while the executor was full and a task
\* was waiting; the executor is still Running, the waiting task has been
\* admitted in its place and executes.
C14_Witness ==
    /\ processor_state = "Running"
    /\ \E t \in TaskIds : tasks[t].status = "failed"
    /\ \E u \in backpressured : tasks[u].status = "running"
    /\ Cardinality(Executing) = max_concurrent_queries

\* C15 as stated: every task that was submitted while the executor was
\* Running and full has been executed, or shed as stale, by the time the
\* command has exited.
C15_WaitingTaskAlwaysExecuted ==
    main_pc = "exited"
        => \A t \in backpressured : tasks[t].status # "scheduled"

\* C15 amended: a task submitted while the executor is Running and full is
\* not dropped or failed for that: it stays waiting until it is admitted or
\* shed as stale, and, as long as no shutdown is signalled, it is eventually
\* admitted or shed; a task still waiting when shutdown is signalled is
\* never admitted.
C15_WaitingTaskAdmittedWhileRunning ==
    /\ [][\A t \in backpressured' :
            tasks[t].status = "scheduled"
                => /\ tasks'[t].status \in {"scheduled", "running", "discarded"}
                   /\ tasks'[t].status = "discarded" => IsStale(tasks'[t].age[1])
                   /\ tasks'[t].status # "scheduled" => processor_state = "Running"]_vars
    /\ \A t \in TaskIds :
          (t \in backpressured)
              ~> (tasks[t].status # "scheduled" \/ processor_state # "Running")

\* C15 witness: a task that had to wait has been admitted and its result
\* is produced, the executor still Running.
C15_Witness ==
    /\ processor_state = "Running"
    /\ \E t \in backpressured : tasks[t].status = "published"

\* C16: the executor leaves Running only for ShuttingDown and only by a
\* signal, leaves ShuttingDown only for Stopped, and never leaves Stopped.
C16_Lifecycle ==
    [][processor_state' # processor_state
          => \/ /\ processor_state = "Running"
                /\ processor_state' = "ShuttingDown"
                /\ signals' = signals + 1
             \/ /\ processor_state = "ShuttingDown"
                /\ processor_state' = "Stopped"]_vars

\* C16 witness: the executor is Stopped and a further signal was delivered
\* after the first one.
C16_Witness ==
    /\ processor_state = "Stopped"
    /\ signals > 1
    /\ main_pc = "exited"

\* C17: a step is a delivery of SIGINT exactly when it is a delivery of
\* SIGTERM: from every state the two signals lead to the same next states,
\* by the same handler.
C17_SignalsHandledAlike ==
    [][Signal("SIGINT") <=> Signal("SIGTERM")]_vars

\* C17 witness: two signals were delivered to a Running executor with a
\* query in flight; each has run the handler, which has asked for shutdown
\* and flushed the querylog producer.
C17_Witness ==
    /\ signals = 2
    /\ querylog_flushes = 2
    /\ processor_state = "ShuttingDown"
    /\ main_pc = "run"
    /\ Executing # {}

\* C20: when the close of the producer fails, the failure leaves the with
\* block as an exception and the command ends with a non-zero status; it
\* ends with status 0 only when the close succeeded.
C20_CloseFailureSurfaces ==
    /\ close_failed => exception # None
    /\ main_pc = "exited" => exit_code = (IF close_failed THEN Some(1) ELSE Some(0))

\* C20 witness: the run loop has returned after its tasks were done, the
\* close has failed and the command has ended with status 1.
C20_Witness ==
    /\ main_pc = "exited"
    /\ processor_state = "Stopped"
    /\ \A t \in TaskIds : tasks[t].status = "published"
    /\ close_failed
    /\ exit_code = Some(1)

(***************************************************************************)
(* The decision of a processor, seen in the settings it leaves.            *)
(***************************************************************************)
\* the limit the store resolves for the object: its own, else the category's,
\* else the default
ResolvedPerSecond(p, o) ==
    Stored(Underscore(get_per_second_name(p, query, settings), o),
           Stored(get_per_second_name(p, query, settings), p.default_limit))

ResolvedConcurrent(p, o) ==
    Stored(Underscore(get_concurrent_name(p, query, settings), o),
           Stored(get_concurrent_name(p, query, settings), p.default_limit))

\* C21: a processor that has run on HTTP settings for a query with an object
\* id has left no entry of its name when its default_limit is None and both
\* resolved limits are None, and one entry in every other case.
C21_SkipCondition ==
    \A p \in Processors :
        (/\ IsHTTP(settings)
         /\ last_processor = p.class
         /\ get_object_id(p, query, settings) # None)
            => LET o == get_object_id(p, query, settings)[1]
               IN  Len(EntriesNamed(settings, p.rate_limit_name))
                      = IF /\ p.default_limit = None
                           /\ ResolvedPerSecond(p, o) = None
                           /\ ResolvedConcurrent(p, o) = None
                        THEN 0 ELSE 1

\* C21 witness: only a concurrent limit is stored for referrers; the referrer
\* processor has attached its entry, the per-second limit unset.
C21_Witness ==
    /\ last_processor = ReferrerRateLimiterProcessor.class
    /\ DOMAIN store = {"referrer_concurrent_limit"}
    /\ EntriesNamed(settings, REFERRER_RATE_LIMIT_NAME)
          = <<RateLimitParameters(REFERRER_RATE_LIMIT_NAME, settings.referrer, None, Some(5))>>

\* the ids the query names on the column, as buckets
BucketsOf(ids) == {str(ids[i]) : i \in DOMAIN ids}

C30_DefaultedProcessorsAlwaysAttach ==
    \A p \in {OrganizationRateLimiterProcessor, ProjectRateLimiterProcessor} :
        /\ p.default_limit = Some(DEFAULT_LIMIT)
        /\ (IsHTTP(settings) /\ last_processor = p.class /\ query[p.object_column] # <<>>)
              => /\ Len(EntriesNamed(settings, p.rate_limit_name)) = 1
                 /\ ~AnyLimitStored(p, EntriesNamed(settings, p.rate_limit_name)[1].bucket)
                       => /\ EntriesNamed(settings, p.rate_limit_name)[1].per_second_limit
                                = Some(DEFAULT_LIMIT)
                          /\ EntriesNamed(settings, p.rate_limit_name)[1].concurrent_limit
                                = Some(DEFAULT_LIMIT)

\* C30 witness: nothing is stored and the project processor has attached
\* its entry with 1000 for both limits.
C30_Witness ==
    /\ DOMAIN store = {}
    /\ last_processor = ProjectRateLimiterProcessor.class
    /\ Len(EntriesNamed(settings, PROJECT_RATE_LIMIT_NAME)) = 1
    /\ EntriesNamed(settings, PROJECT_RATE_LIMIT_NAME)[1].per_second_limit = Some(DEFAULT_LIMIT)
    /\ EntriesNamed(settings, PROJECT_RATE_LIMIT_NAME)[1].concurrent_limit = Some(DEFAULT_LIMIT)

\* C24 as stated: the bucket of the entry the project-referrer processor
\* attaches is segmented by referrer: the same query under another referrer
\* gets another bucket.
C24_BucketSegmentedByReferrer ==
    \A i \in DOMAIN EntriesNamed(settings, PROJECT_REFERRER_RATE_LIMIT_NAME) :
        \A other \in Referrers \ {settings.referrer} :
            EntriesNamed(settings, PROJECT_REFERRER_RATE_LIMIT_NAME)[i].bucket
                # get_object_id(ProjectReferrerRateLimiter, query,
                                [settings EXCEPT !.referrer = other])[1]

\* C22: a process_query step extends the sequence of limits of the request by
\* at most one entry and leaves the entries it found where they were: the
\* sequence before the step is a prefix of the sequence after it.
C22_EntriesOnlyAppended ==
    [][\A p \in Processors :
          (last_processor' = p.class /\ ProcessQuery(p))
              => /\ Len(get_rate_limit_params(settings'))
                       \in {Len(get_rate_limit_params(settings)),
                            Len(get_rate_limit_params(settings)) + 1}
                 /\ SubSeq(get_rate_limit_params(settings'), 1,
                           Len(get_rate_limit_params(settings)))
                       = get_rate_limit_params(settings)]_vars

\* C22 witness: the organization processor ran on a request that held an
\* entry already; its own entry comes second.
C22_Witness ==
    /\ IsHTTP(settings)
    /\ last_processor = OrganizationRateLimiterProcessor.class
    /\ Len(settings.rate_limit_params) = 2
    /\ settings.rate_limit_params[1].bucket = "external"
    /\ settings.rate_limit_params[2].rate_limit_name = ORGANIZATION_RATE_LIMIT_NAME

\* C23: when the query names no id on the column of an organization, project
\* or project-referrer processor, its process_query step leaves the settings
\* as they were and raises nothing.
C23_NoIdLeavesSettingsAlone ==
    [][\A p \in ObjectProcessors :
          (/\ get_object_ids_in_query_ast(query, p.object_column) = <<>>
           /\ last_processor' = p.class
           /\ ProcessQuery(p))
              => settings' = settings /\ raised' = None]_vars

\* C23 witness: limits are stored and the project-referrer processor has run
\* on a query naming no project; the request still holds the one entry it
\* held, of the organization processor, and nothing was raised.
C23_Witness ==
    /\ IsHTTP(settings)
    /\ query[PROJECT_COLUMN] = <<>>
    /\ DOMAIN store # {}
    /\ last_processor = ProjectReferrerRateLimiter.class
    /\ raised = None
    /\ Len(settings.rate_limit_params) = 1
    /\ settings.rate_limit_params[1].rate_limit_name = ORGANIZATION_RATE_LIMIT_NAME

\* C29: once the settings hold an entry of a processor's name, no step
\* changes the entries of that name: not a later run of the processor, also
\* when the store or the query have changed since.
C29_EntryFrozen ==
    [][\A p \in Processors :
          EntriesNamed(settings, p.rate_limit_name) # <<>>
              => EntriesNamed(settings', p.rate_limit_name)
                    = EntriesNamed(settings, p.rate_limit_name)]_vars

\* C29 witness: the organization processor has just run on a query naming
\* organization 42, whose limits are stored, and the settings still hold
\* the entry for organization 7 with the limits of an empty store.
C29_Witness ==
    /\ last_processor = OrganizationRateLimiterProcessor.class
    /\ query[ORG_COLUMN] = <<42>>
    /\ DOMAIN store # {}
    /\ EntriesNamed(settings, ORGANIZATION_RATE_LIMIT_NAME)
          = <<RateLimitParameters(ORGANIZATION_RATE_LIMIT_NAME, str(7),
                                  Some(DEFAULT_LIMIT), Some(DEFAULT_LIMIT))>>

\* the entries of the settings as a set
EntrySet(s) ==
    {get_rate_limit_params(s)[i] : i \in DOMAIN get_rate_limit_params(s)}

\* C28: two processors of different rate_limit_name run on the same query
\* and settings leave the same set of entries in either order.
C28_DifferentCategoriesCommute ==
    \A p1, p2 \in Processors :
        p1.rate_limit_name # p2.rate_limit_name
            => EntrySet(process_query(p2, query,
                            process_query(p1, query, settings, store), store))
                 = EntrySet(process_query(p1, query,
                            process_query(p2, query, settings, store), store))

\* C28 witness: the project processor and then the organization processor
\* have run; the settings hold the entries the other order leaves.
C28_Witness ==
    /\ Len(settings.rate_limit_params) = 2
    /\ settings.rate_limit_params[1].rate_limit_name = PROJECT_RATE_LIMIT_NAME
    /\ settings.rate_limit_params[2].rate_limit_name = ORGANIZATION_RATE_LIMIT_NAME
    /\ last_processor = OrganizationRateLimiterProcessor.class
    /\ EntrySet(settings)
          = EntrySet(process_query(ProjectRateLimiterProcessor, query,
                        process_query(OrganizationRateLimiterProcessor, query,
                                      HTTPRequestSettings("api"), store), store))

\* the tasks started on a worker, and those of them that have ended
Admitted == {t \in TaskIds : tasks[t].status \in {"running", "succeeded", "failed", "published"}}

Ended == {t \in TaskIds : tasks[t].status \in {"succeeded", "failed", "published"}}

\* C25: the count of executions in flight is the number of tasks admitted and
\* not yet ended, it is never negative, and it is 0 when no admitted task is
\* still running.
C25_InFlightAccounting ==
    /\ in_flight = Cardinality(Admitted \ Ended)
    /\ in_flight >= 0
    /\ (Admitted \subseteq Ended) => in_flight = 0

\* C25 witness: every task was taken, one failed, one was discarded as stale
\* and one succeeded, and the count is back at 0.
C25_Witness ==
    /\ \E t \in TaskIds : tasks[t].status = "failed"
    /\ \E t \in TaskIds : tasks[t].status = "discarded"
    /\ \E t \in TaskIds : tasks[t].status \in {"succeeded", "published"}
    /\ \A t \in TaskIds : tasks[t].status \notin {"scheduled", "running"}
    /\ in_flight = 0

\* C26: once the producer is closed no admitted task is running or holds a
\* result not yet produced; and after a termination signal the processor
\* is eventually Stopped with no worker busy and the producer closed once.
C26_ShutdownCompletes ==
    /\ [](producer_closes > 0
            => \A t \in TaskIds : tasks[t].status \notin {"running", "succeeded"})
    /\ (signals > 0)
          ~> (processor_state = "Stopped" /\ Executing = {} /\ producer_closes = 1)

\* C26 witness: after a signal the result of a task that succeeded is
\* produced, the processor is Stopped and the producer
\* closed, with a task left that was never started.
C26_Witness ==
    /\ signals > 0
    /\ processor_state = "Stopped"
    /\ producer_closes = 1
    /\ Executing = {}
    /\ \E t \in TaskIds : tasks[t].status = "published"
    /\ \E t \in TaskIds : tasks[t].status = "scheduled"

\* C31: a process_query step leaves every field of the settings but the
\* sequence of limits as it was: the referrer, the flags, team, feature,
\* parent_api, app_id and the resource quota, on every path of the call.
C31_OnlyLimitsChange ==
    [][\A p \in Processors :
          (last_processor' = p.class /\ ProcessQuery(p))
              => /\ [settings' EXCEPT !.rate_limit_params = settings.rate_limit_params]
                       = settings
                 /\ get_resource_quota(settings') = get_resource_quota(settings)]_vars

\* C31 witness: the project processor has attached its entry to settings
\* made with every flag set and a quota set before; flags and quota are
\* still there.
C31_Witness ==
    /\ IsHTTP(settings)
    /\ last_processor = ProjectRateLimiterProcessor.class
    /\ Len(EntriesNamed(settings, PROJECT_RATE_LIMIT_NAME)) = 1
    /\ quota_calls # <<>>
    /\ get_resource_quota(settings) = Some(quota_calls[Len(quota_calls)])
    /\ get_turbo(settings) /\ get_debug(settings)
    /\ settings.team = "sns"

\* C32: subscription settings have no quota and none of the flags turbo,
\* debug, dry_run and legacy, whatever set_resource_quota and
\* add_rate_limit calls were made on them.
C32_SubscriptionClosedAndFixed ==
    ~IsHTTP(settings)
        => /\ get_resource_quota(settings) = None
           /\ get_turbo(settings) = FALSE
           /\ get_debug(settings) = FALSE
           /\ get_dry_run(settings) = FALSE
           /\ get_legacy(settings) = FALSE

\* C32 witness: subscription settings after a set_resource_quota call and an
\* add_rate_limit call.
C32_Witness ==
    /\ ~IsHTTP(settings)
    /\ quota_calls # <<>>
    /\ external_adds
    /\ get_resource_quota(settings) = None
    /\ ~get_turbo(settings)

\* the states the table leads to in one transition from the states given
TableSuccessors(S) ==
    {definition[st][e][1] :
        <<st, e>> \in {se \in S \X StateCompletionEvents :
                          /\ se[2] \in DOMAIN definition[se[1]]
                          /\ definition[se[1]][se[2]] # None}}

RECURSIVE TableClosure(_)
TableClosure(S) ==
    IF TableSuccessors(S) \subseteq S THEN S ELSE TableClosure(S \cup TableSuccessors(S))

\* C33: in the table walked from BOOTSTRAP every one of the four states can
\* be reached; the consumer ends only on CONSUMPTION_COMPLETED and only from
\* CONSUMING, SNAPSHOT_PAUSED or CATCHING_UP; CATCHING_UP is entered only on
\* SNAPSHOT_READY_RECEIVED, SNAPSHOT_PAUSED only on SNAPSHOT_INIT_RECEIVED,
\* and BOOTSTRAP is never entered again.
C33_TransitionTable ==
    /\ [](TableClosure({start_state}) = StateTypes)
    /\ [][\A event \in StateCompletionEvents :
             Transition(event)
                 => /\ consumer_state' = None
                         => /\ event = "CONSUMPTION_COMPLETED"
                            /\ consumer_state[1]
                                  \in {"CONSUMING", "SNAPSHOT_PAUSED", "CATCHING_UP"}
                    /\ consumer_state' = Some("CATCHING_UP")
                         => event = "SNAPSHOT_READY_RECEIVED"
                    /\ consumer_state' = Some("SNAPSHOT_PAUSED")
                         => event = "SNAPSHOT_INIT_RECEIVED"
                    /\ consumer_state' # Some("BOOTSTRAP")]_vars

\* C33 witness: the consumer has left each of the four states and has ended
\* from CATCHING_UP.
C33_Witness ==
    /\ consumer_state = None
    /\ {consumer_path[i][1] : i \in DOMAIN consumer_path} = StateTypes
    /\ consumer_path[Len(consumer_path)] = <<"CATCHING_UP", "CONSUMPTION_COMPLETED">>

====
